---- MODULE Spec2Model ----
(***************************************************************************)
(* Model of the pollination/guides example scripts:                        *)
(*   getting-started/rest-api/pollination.py  (Payload, PollinationClient) *)
(*   getting-started/rest-api/main.py         (the orchestration script)   *)
(*   getting-started/get_user.py              (the user-info script)       *)
(*                                                                         *)
(* One behaviour is one run of one entry point.  The remote service is the *)
(* environment: it chooses the status codes and bodies of its responses.   *)
(* `trace` is the history of the calls that leave the process (HTTP        *)
(* requests, time.sleep, urlretrieve), in program order.                   *)
(***************************************************************************)
EXTENDS Integers, Sequences, FiniteSets, TLC

VARIABLES
    script,           \* which entry point runs
    environ,          \* os.environ restricted to the two variables read
    pc,               \* position in the running script
    error,            \* the uncaught exception that ended the run, if any
    client,           \* the PollinationClient / httpx.Client instance
    trace,            \* calls issued so far, in order
    file_i,           \* main.py: index of `name` in file_names (for loop)
    arguments,        \* main.py: arguments
    res_body,         \* add_file_to_project: res_body
    add_file_result,  \* outcome of the last add_file_to_project call
    job,              \* the Payload.Job object
    payload,          \* the dict Job.to_dict returned
    job_id,           \* main.py: job_id
    remaining_polls,  \* main.py: remaining_polls
    statuses,         \* job_status values read so far, in order
    runs,             \* main.py: body['resources']
    run_i,            \* main.py: index of `run` in body['resources']
    files             \* names of the files urlretrieve saved, in order

vars == <<script, environ, pc, error, client, trace, file_i, arguments,
          res_body, add_file_result, job, payload, job_id, remaining_polls,
          statuses, runs, run_i, files>>

-----------------------------------------------------------------------------
(* Bounds of the environment *)

MaxRuns == 2

(* Program constants *)

InitialPolls == 5

wait_sec == 60

NoContent == 204

-----------------------------------------------------------------------------
(* Environment: what the process and the service can supply *)

EnvNames == {"POLLINATION_API_KEY", "POLLINATION_ORG"}

EnvValue(n) == IF n = "POLLINATION_API_KEY" THEN "secret-key" ELSE "my-org"

Environs == {[n \in S |-> EnvValue(n)] : S \in SUBSET EnvNames}

StatusCodes == {200, 201, 204, 302, 403, 500}

JobStatuses == {"Created", "Running", "Completed", "Cancelled"}

StorageUrls == {"https://storage.example/a", "https://storage.example/b"}

ServiceJobIds == {"job-1"}

OutputLists == {<<>>, <<"results">>, <<"grid", "results">>}

RunIdNames == <<"run-1", "run-2", "run-3", "run-4">>

RunId(k) == RunIdNames[k]

RunLists ==
    UNION {{[k \in 1..n |-> [id |-> RunId(k), outputs |-> f[k]]]
               : f \in [1..n -> OutputLists]} : n \in 0..MaxRuns}

-----------------------------------------------------------------------------
(* pollination.py: route templates *)

Lit(s) == [var |-> FALSE, s |-> s]

Var(s) == [var |-> TRUE, s |-> s]

project_create == <<Lit("projects"), Var("owner")>>

project_add_recipe ==
    <<Lit("projects"), Var("owner"), Var("name"), Lit("recipes"), Lit("filters")>>

project_add_artifact ==
    <<Lit("projects"), Var("owner"), Var("name"), Lit("artifacts")>>

project_jobs == <<Lit("projects"), Var("owner"), Var("name"), Lit("jobs")>>

project_job_by_id == project_jobs \o <<Var("job_id")>>

project_runs == <<Lit("projects"), Var("owner"), Var("name"), Lit("runs")>>

project_run_output ==
    project_runs \o <<Var("run_id"), Lit("outputs"), Var("output_name")>>

FormatMap(template, m) ==
    [i \in DOMAIN template |->
        IF template[i].var THEN m[template[i].s] ELSE template[i].s]

-----------------------------------------------------------------------------
(* pollination.py: payloads *)

\* A dataclass instance is its class and its fields; dataclasses.asdict
\* returns the fields as a dict (Payload.Base.to_dict)
New(cls, fields) == [cls |-> cls, f |-> fields]

asdict(obj) == obj.f

Create(name, description, public) ==
    New("Create", [name |-> name, description |-> description, public |-> public])

RecipeFilter(owner, name, tag) ==
    New("RecipeFilter", [owner |-> owner, name |-> name, tag |-> tag])

Artifact(key) == New("Artifact", [key |-> key])

Job(source, args) == New("Job", [source |-> source, arguments |-> args])

NoJob == Job(<<>>, <<>>)

\* queenbee ProjectFolder(path=...) and JobPathArgument(name=..., source=...)
ProjectFolder(path) == [path |-> path]

JobPathArgument(name, source) == [name |-> name, source |-> source]

\* JobPathArgument.to_dict(): the pydantic model as a dict, with its type tags
ArgToDict(arg) ==
    [type |-> "JobPathArgument", name |-> arg.name,
     source |-> [type |-> "ProjectFolder", path |-> arg.source.path]]

\* Payload.Job.to_dict, inner loop: for arg in group: g.append(arg.to_dict())
RECURSIVE GroupToDict(_, _)
GroupToDict(group, g) ==
    IF group = <<>> THEN g
    ELSE GroupToDict(Tail(group), Append(g, ArgToDict(Head(group))))

\* fault variant of GroupsToDict: each group is inserted at the front
RECURSIVE GroupsToDict_Prepend(_, _)
GroupsToDict_Prepend(groups, args) ==
    IF groups = <<>> THEN args
    ELSE GroupsToDict_Prepend(Tail(groups),
                              <<GroupToDict(Head(groups), <<>>)>> \o args)

\* Payload.Job.to_dict, outer loop: for group in self.arguments: args.append(g)
RECURSIVE GroupsToDict(_, _)
GroupsToDict(groups, args) ==
    IF groups = <<>> THEN args
    ELSE GroupsToDict(Tail(groups), Append(args, GroupToDict(Head(groups), <<>>)))

JobToDict(j) ==
    [asdict(j) EXCEPT !.arguments = GroupsToDict(j.f.arguments, <<>>)]

-----------------------------------------------------------------------------
(* pollination.py: the client and the requests its methods issue *)

NoClient == [base_url |-> "", headers |-> {}, organization |-> ""]

\* PollinationClient.__init__ after both environment lookups succeeded
NewClient(env) ==
    [base_url |-> "https://api.pollination.cloud",
     headers |-> {<<"x-pollination-token", env["POLLINATION_API_KEY"]>>},
     organization |-> env["POLLINATION_ORG"]]

\* self.post / self.get: a request through the client carries its headers
ClientRequest(c, call, method, path, data) ==
    [call |-> call, method |-> method, base |-> c.base_url,
     headers |-> c.headers, url |-> path, data |-> data]

\* httpx.post / urlretrieve / time.sleep: calls made outside the client
PlainCall(call, method, url, data) ==
    [call |-> call, method |-> method, base |-> "",
     headers |-> {}, url |-> <<url>>, data |-> data]

CreateProjectRequest(c, body) ==
    ClientRequest(c, "create_project", "POST",
        FormatMap(project_create, [owner |-> c.organization]), asdict(body))

AddRecipeRequest(c, project_name, body) ==
    ClientRequest(c, "add_recipe_to_project", "POST",
        FormatMap(project_add_recipe,
                  [owner |-> c.organization, name |-> project_name]),
        asdict(body))

CreateArtifactRequest(c, project_name, body) ==
    ClientRequest(c, "create_artifact", "POST",
        FormatMap(project_add_artifact,
                  [owner |-> c.organization, name |-> project_name]),
        asdict(body))

\* fault variant of UploadRequest: the file is posted through the client
UploadRequest_ViaClient(artifact, url, fields) ==
    ClientRequest(client, "upload", "POST", url,
                  [fields |-> fields, file |-> artifact.f.key])

\* Payload.Artifact.upload: httpx.post(url=url, data=fields, files=files)
UploadRequest(artifact, url, fields) ==
    PlainCall("upload", "POST", url, [fields |-> fields, file |-> artifact.f.key])

CreateJobRequest(c, project_name, d) ==
    ClientRequest(c, "create_job", "POST",
        FormatMap(project_jobs,
                  [owner |-> c.organization, name |-> project_name]), d)

GetJobRequest(c, project_name, id) ==
    ClientRequest(c, "get_job", "GET",
        FormatMap(project_job_by_id,
                  [owner |-> c.organization, name |-> project_name,
                   job_id |-> id]), [empty |-> TRUE])

GetRunsRequest(c, project_name, id) ==
    ClientRequest(c, "get_runs", "GET",
        FormatMap(project_runs,
                  [owner |-> c.organization, name |-> project_name])
            \o <<"?job_id=", id>>, [empty |-> TRUE])

GetRunOutputRequest(c, project_name, rid, output_name) ==
    ClientRequest(c, "get_run_output", "GET",
        FormatMap(project_run_output,
                  [owner |-> c.organization, name |-> project_name,
                   run_id |-> rid, output_name |-> output_name]), [empty |-> TRUE])

\* httpx.Response.raise_for_status as called on a non-204 upload response.
\* 4xx/5xx raise HTTPStatusError in every httpx release; a 2xx never raises
\* (the call returns None, or the response itself in later releases); 1xx/3xx
\* raise only in later releases.  The repository pins no release.
RaiseForStatus(code) ==
    IF code >= 400 THEN {"raise"}
    ELSE IF code >= 200 /\ code < 300 THEN {"None", "response"}
    ELSE {"None", "raise"}

\* add_file_to_project, last line:
\*   return res if res.status_code == 204 else res.raise_for_status()
AddFileOutcomes(code) ==
    IF code = NoContent THEN {"response"} ELSE RaiseForStatus(code)

-----------------------------------------------------------------------------
(* main.py: the values the script builds *)

project == Create("good-project", "A very good project", FALSE)

recipe_filter == RecipeFilter("ladybug-tools", "daylight-factor", "0.5.6")

file_names == <<"model1.hbjson", "model2.hbjson">>

\* '/'.join([str(client.base_url), 'registries', owner, 'recipe', name, tag])
recipe_source_url(c) ==
    <<c.base_url, "registries", asdict(recipe_filter).owner, "recipe",
      asdict(recipe_filter).name, asdict(recipe_filter).tag>>

\* f'{run_id}-{run_output_name}.zip'
FileName(rid, output_name) == <<rid, "-", output_name, ".zip">>

\* fault variant of FirstOutput: the last output is taken
LastOutput(run) == run.outputs[Len(run.outputs)]

\* run['status']['outputs'][0]['name'] of a run with a non-empty outputs list
FirstOutput(run) == run.outputs[1]

\* the job statuses on which the poll loop stops
IsCompleted(st) == st = "Completed"

\* fault variant of IsCancelled: the status literal is misspelt
IsCancelled_Misspelt(st) == st = "Canceled"

IsCancelled(st) == st = "Cancelled"

\* fault variant of PollGuard: the test admits one more iteration
PollGuard_OffByOne(r) == r >= 0

\* while remaining_polls > 0
PollGuard(r) == r > 0

\* fault variant of NextRemaining: the counter drops by two
NextRemaining_ByTwo(r) == r - 2

\* remaining_polls -= 1
NextRemaining(r) == r - 1

-----------------------------------------------------------------------------
(* State *)

NoError == [type |-> "", at |-> ""]

NoResult == [status |-> 0, outcome |-> ""]

NoBody == [url |-> "", fields |-> <<>>]

\* Job objects Job.to_dict is applied to when it is called as a library
\* function: up to two groups of up to two arguments
LibArgs ==
    {JobPathArgument(n, ProjectFolder(p)) :
        n \in {"model", "grid"}, p \in {"a.hbjson", "b.hbjson"}}

LibGroups == {<<>>} \cup {<<a>> : a \in LibArgs}
                \cup {<<a, b>> : a \in LibArgs, b \in LibArgs}

LibJobs ==
    {Job(<<"recipe">>, gs) :
        gs \in {<<>>} \cup {<<g>> : g \in LibGroups}
                  \cup {<<g, h>> : g \in {<<a>> : a \in LibArgs}, h \in LibGroups}}

Raise(type, at) ==
    /\ pc' = "raised"
    /\ error' = [type |-> type, at |-> at]

Init ==
    /\ script \in {"main", "get_user", "to_dict"}
    /\ environ \in Environs
    /\ pc = "start"
    /\ error = NoError
    /\ client = NoClient
    /\ trace = <<>>
    /\ file_i = 1
    /\ arguments = <<>>
    /\ res_body = NoBody
    /\ add_file_result = NoResult
    /\ job \in IF script = "to_dict" THEN LibJobs ELSE {NoJob}
    /\ payload = asdict(NoJob)
    /\ job_id = ""
    /\ remaining_polls = 0
    /\ statuses = <<>>
    /\ runs = <<>>
    /\ run_i = 1
    /\ files = <<>>

-----------------------------------------------------------------------------
(* main.py *)

\* fault variant of ClientInit: a missing POLLINATION_ORG is tolerated
ClientInit_OrgOptional ==
    /\ script = "main" /\ pc = "start"
    /\ IF "POLLINATION_API_KEY" \notin DOMAIN environ
       THEN /\ Raise("KeyError", "PollinationClient.__init__")
            /\ UNCHANGED client
       ELSE /\ client' = [base_url |-> "https://api.pollination.cloud",
                          headers |-> {<<"x-pollination-token",
                                         environ["POLLINATION_API_KEY"]>>},
                          organization |->
                              IF "POLLINATION_ORG" \in DOMAIN environ
                              THEN environ["POLLINATION_ORG"] ELSE ""]
            /\ pc' = "create_project"
            /\ UNCHANGED error
    /\ UNCHANGED <<script, environ, trace, file_i, arguments, res_body,
                   add_file_result, job, payload, job_id, remaining_polls,
                   statuses, runs, run_i, files>>

\* client = PollinationClient(): __init__ reads POLLINATION_API_KEY, then
\* POLLINATION_ORG, from os.environ; a missing key raises KeyError
ClientInit ==
    /\ script = "main" /\ pc = "start"
    /\ IF "POLLINATION_API_KEY" \notin DOMAIN environ
          \/ "POLLINATION_ORG" \notin DOMAIN environ
       THEN /\ Raise("KeyError", "PollinationClient.__init__")
            /\ UNCHANGED client
       ELSE /\ client' = NewClient(environ)
            /\ pc' = "create_project"
            /\ UNCHANGED error
    /\ UNCHANGED <<script, environ, trace, file_i, arguments, res_body,
                   add_file_result, job, payload, job_id, remaining_polls,
                   statuses, runs, run_i, files>>

\* res = client.create_project(project)
CreateProject ==
    /\ script = "main" /\ pc = "create_project"
    /\ trace' = Append(trace, CreateProjectRequest(client, project))
    /\ pc' = "add_recipe"
    /\ UNCHANGED <<script, environ, error, client, file_i, arguments, res_body,
                   add_file_result, job, payload, job_id, remaining_polls,
                   statuses, runs, run_i, files>>

\* res = client.add_recipe_to_project(project.name, recipe_filter);
\* file_names = [...]; arguments = []
AddRecipe ==
    /\ script = "main" /\ pc = "add_recipe"
    /\ trace' = Append(trace,
                  AddRecipeRequest(client, asdict(project).name, recipe_filter))
    /\ arguments' = <<>>
    /\ file_i' = 1
    /\ pc' = IF Len(file_names) = 0 THEN "create_job" ELSE "add_file"
    /\ UNCHANGED <<script, environ, error, client, res_body,
                   add_file_result, job, payload, job_id, remaining_polls,
                   statuses, runs, run_i, files>>

\* add_file_to_project, first half: the create-artifact POST and
\* res_body = res.json(); res_body['url'] raises KeyError on an error body
CreateArtifact ==
    /\ script = "main" /\ pc = "add_file"
    /\ trace' = Append(trace,
                  CreateArtifactRequest(client, asdict(project).name,
                                        Artifact(file_names[file_i])))
    /\ \/ \E u \in StorageUrls :
            /\ res_body' = [url |-> u, fields |-> <<"policy", u>>]
            /\ pc' = "upload"
            /\ UNCHANGED error
       \/ /\ Raise("KeyError", "add_file_to_project")
          /\ UNCHANGED res_body
    /\ UNCHANGED <<script, environ, client, file_i, arguments,
                   add_file_result, job, payload, job_id, remaining_polls,
                   statuses, runs, run_i, files>>

\* fault variant of Upload: the error of a failed upload is caught and logged
Upload_Swallow ==
    /\ script = "main" /\ pc = "upload"
    /\ trace' = Append(trace,
                  UploadRequest(Artifact(file_names[file_i]),
                                res_body.url, res_body.fields))
    /\ \E code \in StatusCodes : \E out \in AddFileOutcomes(code) :
         /\ add_file_result' = [status |-> code, outcome |-> out]
         /\ error' = IF out = "raise"
                     THEN [type |-> "HTTPStatusError", at |-> "add_file_to_project"]
                     ELSE error
         /\ arguments' = Append(arguments,
                <<JobPathArgument("model",
                      ProjectFolder(asdict(Artifact(file_names[file_i])).key))>>)
         /\ file_i' = file_i + 1
         /\ pc' = IF file_i = Len(file_names) THEN "create_job" ELSE "add_file"
    /\ UNCHANGED <<script, environ, client, res_body, job, payload, job_id,
                   remaining_polls, statuses, runs, run_i, files>>

\* add_file_to_project, second half: body.upload(url, fields) and the status
\* check; then main.py appends [model_argument] and takes the next name
Upload ==
    /\ script = "main" /\ pc = "upload"
    /\ trace' = Append(trace,
                  UploadRequest(Artifact(file_names[file_i]),
                                res_body.url, res_body.fields))
    /\ \E code \in StatusCodes : \E out \in AddFileOutcomes(code) :
         /\ add_file_result' = [status |-> code, outcome |-> out]
         /\ IF out = "raise"
            THEN /\ Raise("HTTPStatusError", "add_file_to_project")
                 /\ UNCHANGED <<arguments, file_i>>
            ELSE /\ arguments' = Append(arguments,
                        <<JobPathArgument("model",
                              ProjectFolder(asdict(Artifact(file_names[file_i])).key))>>)
                 /\ file_i' = file_i + 1
                 /\ pc' = IF file_i = Len(file_names) THEN "create_job"
                                                      ELSE "add_file"
                 /\ UNCHANGED error
    /\ UNCHANGED <<script, environ, client, res_body, job, payload, job_id,
                   remaining_polls, statuses, runs, run_i, files>>

\* job = Payload.Job(...); res = client.create_job(project.name, job);
\* job_id = res.json()['id'] (KeyError on an error body);
\* remaining_polls = 5; wait_sec = 60
CreateJob ==
    /\ script = "main" /\ pc = "create_job"
    /\ job' = Job(recipe_source_url(client), arguments)
    /\ payload' = JobToDict(job')
    /\ trace' = Append(trace,
                  CreateJobRequest(client, asdict(project).name, payload'))
    /\ \/ \E id \in ServiceJobIds :
            /\ job_id' = id
            /\ remaining_polls' = InitialPolls
            /\ pc' = "poll"
            /\ UNCHANGED error
       \/ /\ Raise("KeyError", "main")
          /\ UNCHANGED <<job_id, remaining_polls>>
    /\ UNCHANGED <<script, environ, client, file_i, arguments, res_body,
                   add_file_result, statuses, runs, run_i, files>>

\* one iteration of the while loop: get_job, the two status tests, then
\* time.sleep(wait_sec) and remaining_polls -= 1
Poll ==
    /\ script = "main" /\ pc = "poll"
    /\ PollGuard(remaining_polls)
    /\ \E st \in JobStatuses :
         /\ statuses' = Append(statuses, st)
         /\ IF IsCompleted(st)
            THEN /\ trace' = Append(trace,
                       GetJobRequest(client, asdict(project).name, job_id))
                 /\ pc' = "get_runs"
                 /\ UNCHANGED <<remaining_polls, error>>
            ELSE IF IsCancelled(st)
            THEN /\ trace' = Append(trace,
                       GetJobRequest(client, asdict(project).name, job_id))
                 /\ Raise("SystemExit", "main")
                 /\ UNCHANGED remaining_polls
            ELSE /\ trace' = trace \o
                       <<GetJobRequest(client, asdict(project).name, job_id),
                         PlainCall("sleep", "", "", [seconds |-> wait_sec])>>
                 /\ remaining_polls' = NextRemaining(remaining_polls)
                 /\ pc' = "poll"
                 /\ UNCHANGED error
    /\ UNCHANGED <<script, environ, client, file_i, arguments, res_body,
                   add_file_result, job, payload, job_id, runs, run_i, files>>

\* fault variant of PollExhausted: running out of polls raises
PollExhausted_Raise ==
    /\ script = "main" /\ pc = "poll"
    /\ ~PollGuard(remaining_polls)
    /\ Raise("TimeoutError", "main")
    /\ UNCHANGED <<script, environ, client, trace, file_i, arguments,
                   res_body, add_file_result, job, payload, job_id,
                   remaining_polls, statuses, runs, run_i, files>>

\* the while condition is false: fall through to the code after the loop
PollExhausted ==
    /\ script = "main" /\ pc = "poll"
    /\ ~PollGuard(remaining_polls)
    /\ pc' = "get_runs"
    /\ UNCHANGED <<script, environ, error, client, trace, file_i, arguments,
                   res_body, add_file_result, job, payload, job_id,
                   remaining_polls, statuses, runs, run_i, files>>

\* res = client.get_runs(project.name, job_id); body = res.json()
GetRuns ==
    /\ script = "main" /\ pc = "get_runs"
    /\ trace' = Append(trace, GetRunsRequest(client, asdict(project).name, job_id))
    /\ \E rs \in RunLists : runs' = rs
    /\ run_i' = 1
    /\ pc' = "download"
    /\ UNCHANGED <<script, environ, error, client, file_i, arguments, res_body,
                   add_file_result, job, payload, job_id, remaining_polls,
                   statuses, files>>

\* one iteration of `for run in body['resources']`: outputs[0] raises
\* IndexError on an empty list; else get_run_output, then urlretrieve
Download ==
    /\ script = "main" /\ pc = "download"
    /\ run_i <= Len(runs)
    /\ LET run == runs[run_i] IN
         IF Len(run.outputs) = 0
         THEN /\ Raise("IndexError", "main")
              /\ UNCHANGED <<trace, files, run_i>>
         ELSE LET run_output_name == FirstOutput(run)
                  req == GetRunOutputRequest(client, asdict(project).name,
                                             run.id, run_output_name)
              IN /\ trace' = trace \o
                       <<req, PlainCall("urlretrieve", "GET", "signed-url",
                             [filename |-> FileName(run.id, run_output_name)])>>
                 /\ files' = Append(files, FileName(run.id, run_output_name))
                 /\ run_i' = run_i + 1
                 /\ UNCHANGED <<pc, error>>
    /\ UNCHANGED <<script, environ, client, file_i, arguments, res_body,
                   add_file_result, job, payload, job_id, remaining_polls,
                   statuses, runs>>

\* the for loop is over: the script ends
Finish ==
    /\ script = "main" /\ pc = "download"
    /\ run_i > Len(runs)
    /\ pc' = "done"
    /\ UNCHANGED <<script, environ, error, client, trace, file_i, arguments,
                   res_body, add_file_result, job, payload, job_id,
                   remaining_polls, statuses, runs, run_i, files>>

-----------------------------------------------------------------------------
(* get_user.py *)

\* class Const: api_key = os.environ['POLLINATION_API_KEY'];
\* client = httpx.Client(headers=headers, base_url=Const.url)
GetUserInit ==
    /\ script = "get_user" /\ pc = "start"
    /\ IF "POLLINATION_API_KEY" \notin DOMAIN environ
       THEN /\ Raise("KeyError", "Const")
            /\ UNCHANGED client
       ELSE /\ client' = [base_url |-> "https://api.pollination.cloud",
                          headers |-> {<<"x-pollination-token",
                                         environ["POLLINATION_API_KEY"]>>},
                          organization |-> ""]
            /\ pc' = "get_user"
            /\ UNCHANGED error
    /\ UNCHANGED <<script, environ, trace, file_i, arguments, res_body,
                   add_file_result, job, payload, job_id, remaining_polls,
                   statuses, runs, run_i, files>>

\* res = client.get(Const.Endpoints.user)
GetUser ==
    /\ script = "get_user" /\ pc = "get_user"
    /\ trace' = Append(trace, ClientRequest(client, "get_user", "GET", <<"user">>, [empty |-> TRUE]))
    /\ pc' = "done"
    /\ UNCHANGED <<script, environ, error, client, file_i, arguments, res_body,
                   add_file_result, job, payload, job_id, remaining_polls,
                   statuses, runs, run_i, files>>

-----------------------------------------------------------------------------
(* pollination.py used as a library: Payload.Job.to_dict on a given job *)

ToDict ==
    /\ script = "to_dict" /\ pc = "start"
    /\ payload' = JobToDict(job)
    /\ pc' = "done"
    /\ UNCHANGED <<script, environ, error, client, trace, file_i, arguments,
                   res_body, add_file_result, job, job_id, remaining_polls,
                   statuses, runs, run_i, files>>

-----------------------------------------------------------------------------

Next ==
    \/ ClientInit
    \/ CreateProject
    \/ AddRecipe
    \/ CreateArtifact
    \/ Upload
    \/ CreateJob
    \/ Poll
    \/ PollExhausted
    \/ GetRuns
    \/ Download
    \/ Finish
    \/ GetUserInit
    \/ GetUser
    \/ ToDict

Spec == Init /\ [][Next]_vars

\* The interpreter runs the script to its end: a step that can be taken is taken
LiveSpec == Spec /\ WF_vars(Next)

-----------------------------------------------------------------------------
(* Properties *)

Calls(c) == {i \in DOMAIN trace : trace[i].call = c}

NumCalls(c) == Cardinality(Calls(c))

Terminal == {"Completed", "Cancelled"}

NonTerminalSeen == Cardinality({k \in DOMAIN statuses : statuses[k] \notin Terminal})

PollStarted == script = "main" /\ job_id # ""

PollOver == PollStarted /\ pc # "poll"

Exhausted ==
    /\ PollStarted
    /\ Len(statuses) = 5
    /\ \A k \in DOMAIN statuses : statuses[k] \notin Terminal

HasToken(req) == \E h \in req.headers : h[1] = "x-pollination-token"

\* C1 (safety part): the number of get_job requests never exceeds 5, no
\* get_job follows a 'Completed' or 'Cancelled' response, and once the loop
\* is over the number is k if the k-th response was the first terminal one,
\* and exactly 5 if none of the 5 responses was terminal.
C1_PollCount ==
    PollStarted =>
        /\ NumCalls("get_job") = Len(statuses)
        /\ NumCalls("get_job") <= 5
        /\ \A k \in DOMAIN statuses :
              statuses[k] \in Terminal => NumCalls("get_job") = k
        /\ PollOver =>
              \/ /\ Len(statuses) >= 1
                 /\ statuses[Len(statuses)] \in Terminal
              \/ /\ NumCalls("get_job") = 5
                 /\ \A k \in DOMAIN statuses : statuses[k] \notin Terminal

\* C1: for every sequence of job statuses the poll loop terminates, having
\* issued k get_job requests when the first terminal status is the k-th
\* response (k <= 5) and exactly 5 when no response is terminal.
C1_PollLoopTerminates ==
    /\ []C1_PollCount
    /\ (pc = "poll") ~> (pc # "poll")

C1_Witness ==
    /\ PollOver
    /\ Len(statuses) = 3
    /\ statuses[3] = "Completed"
    /\ NumCalls("get_job") = 3

\* C2: add_file_to_project raises whenever the storage response status is
\* not 204 (other 2xx codes included) and returns the response only when the
\* status is exactly 204.
C2_RaisesOnNon204 ==
    add_file_result.outcome # "" =>
        /\ add_file_result.status # 204 => add_file_result.outcome = "raise"
        /\ add_file_result.outcome = "response" => add_file_result.status = 204

\* C3: create_project is issued before any add_recipe_to_project,
\* add_file_to_project or create_job request; create_job is issued only
\* after the create-artifact POST and then the storage POST of every artifact
\* key its arguments reference; if an upload raised, create_job is never issued.
C3_RequestOrder ==
    /\ \A i \in DOMAIN trace :
          trace[i].call \in {"add_recipe_to_project", "create_artifact",
                             "upload", "create_job"}
             => \E j \in 1..(i - 1) : trace[j].call = "create_project"
    /\ \A i \in Calls("create_job") :
          \A g \in DOMAIN trace[i].data.arguments :
             \A a \in DOMAIN trace[i].data.arguments[g] :
                LET key == trace[i].data.arguments[g][a].source.path IN
                \E x \in Calls("create_artifact") : \E y \in Calls("upload") :
                   /\ x < y /\ y < i
                   /\ trace[x].data.key = key
                   /\ trace[y].data.file = key
    /\ error.at = "add_file_to_project" => NumCalls("create_job") = 0

C3_Witness ==
    /\ NumCalls("create_job") = 1
    /\ NumCalls("upload") = 2
    /\ error = NoError

\* C4: once a poll response is 'Cancelled' the script has stopped: no
\* get_runs, get_run_output or download is ever performed and the get_job
\* that read 'Cancelled' is the last request.
C4_CancelledAborts ==
    \A k \in DOMAIN statuses :
        statuses[k] = "Cancelled" =>
            /\ pc = "raised"
            /\ error.type = "SystemExit"
            /\ NumCalls("get_job") = k
            /\ trace[Len(trace)].call = "get_job"
            /\ NumCalls("get_runs") = 0
            /\ NumCalls("get_run_output") = 0
            /\ NumCalls("urlretrieve") = 0
            /\ files = <<>>

C4_Witness ==
    /\ Len(statuses) = 2
    /\ statuses[2] = "Cancelled"
    /\ pc = "raised"

\* C5: when all 5 poll responses are non-terminal, no error is raised on
\* exhaustion: the loop is left with remaining_polls = 0 and the script goes
\* on to exactly one get_runs request, issued right after the last sleep, and
\* then to the per-run downloads, as after 'Completed'.
C5_SilentExhaustion ==
    Exhausted =>
        /\ remaining_polls = 0
        /\ pc \in {"poll", "get_runs", "download", "done", "raised"}
        /\ pc = "raised" => error.type = "IndexError" /\ NumCalls("get_runs") = 1
        /\ pc # "raised" => error = NoError
        /\ pc = "poll" => ENABLED PollExhausted
        /\ pc \in {"download", "done"} =>
              /\ NumCalls("get_runs") = 1
              /\ \A i \in Calls("get_runs") : trace[i - 1].call = "sleep"
        /\ pc = "done" => NumCalls("urlretrieve") = Len(runs)

C5_Witness ==
    /\ Exhausted
    /\ pc = "done"
    /\ Len(files) = 2

C7_JobPayload ==
    /\ \A i \in Calls("create_job") :
          LET d == trace[i].data IN
          /\ d.source = <<"https://api.pollination.cloud", "registries",
                          "ladybug-tools", "recipe", "daylight-factor", "0.5.6">>
          /\ Len(d.arguments) = NumCalls("upload")
          /\ Len(d.arguments) = 2
          /\ \A g \in DOMAIN d.arguments :
                /\ Len(d.arguments[g]) = 1
                /\ d.arguments[g][1].name = "model"
                /\ d.arguments[g][1].source.path = file_names[g]
                /\ \E y \in Calls("upload") :
                      /\ trace[y].data.file = d.arguments[g][1].source.path
                      /\ Cardinality({z \in Calls("upload") : z <= y}) = g
    /\ (script = "to_dict" /\ pc = "done") =>
          /\ payload.source = job.f.source
          /\ Len(payload.arguments) = Len(job.f.arguments)
          /\ \A g \in DOMAIN job.f.arguments :
                /\ Len(payload.arguments[g]) = Len(job.f.arguments[g])
                /\ \A a \in DOMAIN job.f.arguments[g] :
                      /\ payload.arguments[g][a].name = job.f.arguments[g][a].name
                      /\ payload.arguments[g][a].source.path =
                            job.f.arguments[g][a].source.path

C7_Witness ==
    /\ NumCalls("create_job") = 1
    /\ Len(payload.arguments) = 2
    /\ payload.arguments[2][1].source.path = "model2.hbjson"

\* the number of runs that precede the first run with an empty outputs list
Downloadable ==
    Cardinality({k \in DOMAIN runs :
                    \A m \in 1..k : Len(runs[m].outputs) > 0})

\* C8 (as stated): when the script has stopped after get_runs, it has issued
\* one get_run_output and one download per run returned, empty outputs lists
\* included.
C8_OneDownloadPerRun ==
    (script = "main" /\ pc \in {"done", "raised"} /\ NumCalls("get_runs") = 1) =>
        /\ NumCalls("get_run_output") = Len(runs)
        /\ Len(files) = Len(runs)

\* C8 (amended): after polling ends without 'Cancelled' the runs are taken in
\* list order; each run with a non-empty outputs list gets exactly one
\* get_run_output request for its first output and one download saved as
\* '{run_id}-{output_name}.zip'; the first run with an empty outputs list
\* raises IndexError before any request for it, so the number of downloads is
\* the number of runs before the first run with an empty outputs list.
C8_DownloadsUntilEmpty ==
    (script = "main" /\ NumCalls("get_runs") = 1) =>
        LET base == CHOOSE i \in Calls("get_runs") : TRUE IN
        /\ Len(trace) = base + 2 * Len(files)
        /\ Len(files) = run_i - 1
        /\ Len(files) <= Downloadable
        /\ \A k \in DOMAIN files :
              /\ files[k] = <<runs[k].id, "-", runs[k].outputs[1], ".zip">>
              /\ trace[base + 2 * k - 1].call = "get_run_output"
              /\ trace[base + 2 * k - 1].url =
                    <<"projects", environ["POLLINATION_ORG"], "good-project",
                      "runs", runs[k].id, "outputs", runs[k].outputs[1]>>
              /\ trace[base + 2 * k].call = "urlretrieve"
              /\ trace[base + 2 * k].data.filename = files[k]
        /\ pc = "done" => Len(files) = Len(runs) /\ Downloadable = Len(runs)
        /\ pc = "raised" =>
              /\ error.type = "IndexError"
              /\ Len(files) = Downloadable
              /\ Downloadable < Len(runs)
        /\ pc \in {"download", "done", "raised"}

C8_Witness ==
    /\ pc = "raised"
    /\ error.type = "IndexError"
    /\ Len(runs) = 2
    /\ Len(files) = 1
    /\ files[1] = <<"run-1", "-", "grid", ".zip">>

\* C9: when POLLINATION_API_KEY or POLLINATION_ORG is missing, main.py fails
\* with KeyError in the client constructor and sends no request; get_user.py
\* fails before its GET when POLLINATION_API_KEY is missing.
C9_FailFast ==
    /\ (script = "main" /\ ~(EnvNames \subseteq DOMAIN environ)) =>
          /\ trace = <<>>
          /\ pc \in {"start", "raised"}
          /\ pc = "raised" => error = [type |-> "KeyError",
                                       at |-> "PollinationClient.__init__"]
    /\ (script = "get_user" /\ "POLLINATION_API_KEY" \notin DOMAIN environ) =>
          /\ trace = <<>>
          /\ pc \in {"start", "raised"}
          /\ pc = "raised" => error.type = "KeyError"

C9_Witness ==
    /\ script = "main"
    /\ DOMAIN environ = {"POLLINATION_API_KEY"}
    /\ pc = "raised"
    /\ error.type = "KeyError"

SleptSeconds(n) == IF n = 0 THEN 0 ELSE
    LET RECURSIVE Sum(_)
        Sum(i) == IF i = 0 THEN 0
                  ELSE Sum(i - 1) + (IF trace[i].call = "sleep" THEN trace[i].data.seconds ELSE 0)
    IN Sum(n)

\* C10: in and after the poll loop remaining_polls is in 0..5 and equals 5
\* minus the number of non-terminal responses seen; a 60 second sleep directly
\* follows each non-terminal response and no terminal one; on exhaustion the
\* script has slept 5 times, 300 seconds, the last sleep followed by no get_job.
C10_RemainingPolls ==
    PollStarted =>
        /\ remaining_polls \in 0..5
        /\ remaining_polls = 5 - NonTerminalSeen
        /\ NumCalls("sleep") = NonTerminalSeen
        /\ SleptSeconds(Len(trace)) = 60 * NonTerminalSeen
        /\ \A i \in Calls("sleep") : trace[i - 1].call = "get_job"
        /\ \A i \in Calls("get_job") :
              LET k == Cardinality({z \in Calls("get_job") : z <= i}) IN
              IF statuses[k] \in Terminal
              THEN i = Len(trace) \/ trace[i + 1].call # "sleep"
              ELSE i < Len(trace) /\ trace[i + 1].call = "sleep"
        /\ Exhausted =>
              /\ NumCalls("sleep") = 5
              /\ SleptSeconds(Len(trace)) = 300
              /\ \A i \in Calls("get_job") : \E j \in Calls("sleep") : i < j

C10_Witness ==
    /\ Exhausted
    /\ pc = "get_runs"
    /\ remaining_polls = 0
    /\ SleptSeconds(Len(trace)) = 300

====
